---- MODULE Spec2Model ----
(***************************************************************************)
(* The universe history of the cellular-automaton simulator                *)
(* (src/src/simulator/universe_history.rs): the diff log with periodic     *)
(* checkpoints, and the service thread that owns it; and the Game of Life   *)
(* automaton (src/src/game_of_life.rs) whose generations it records.       *)
(***************************************************************************)
EXTENDS Integers, Sequences, FiniteSets, TLC

(* ------------------------------------------------------------------ *)
(* Bounds of the model                                                  *)
(* ------------------------------------------------------------------ *)

\* Pushes applied to a history under HistSpec (direct calls of push).
MaxGen == 6

\* Pushes applied to a history under DiffSpec.
MaxDiffGen == 4

\* Plain Push messages the driver sends to the service.
MaxPush == 2

\* Other mails the clients send to the service.
MaxReq == 2

\* Generations the Game of Life universe is stepped through under LifeSpec.
MaxStep == 2

(* ------------------------------------------------------------------ *)
(* Universes and diffs                                                  *)
(* ------------------------------------------------------------------ *)

\* The positions of the (small) grid the histories are exercised on.
Positions == {1, 2}

\* game_of_life.rs: enum States { Dead, Alive }.
States == {"Dead", "Alive"}

\* A universe: one cell state per position.
Grids == [Positions -> States]

\* The checkpoint frequencies the histories are built with.
FChecks == {0, 1, 2, 5}

\* Universe::diff: the entries (old, new) of the positions that differ.
diff(a, b) ==
    [p \in {q \in Positions : a[q] # b[q]} |-> [old |-> a[p], new |-> b[p]]]

\* The grid that stands for a failed apply_diff (DiffMismatch).
MismatchGrid == [p \in Positions |-> "Mismatch"]

\* Universe::apply_diff: writes `new` at every entry; fails when the grid does
\* not hold the entry's `old`.
apply_diff(g, d) ==
    IF \E p \in DOMAIN d : g[p] # d[p].old
    THEN MismatchGrid
    ELSE [p \in Positions |-> IF p \in DOMAIN d THEN d[p].new ELSE g[p]]

\* The identity diff.
EmptyDiff == [p \in {} |-> [old |-> "Dead", new |-> "Dead"]]

\* The entry of position p in the composition of the diffs ds, as a sequence of
\* length at most one: the earliest old and the latest new among the diffs that
\* touch p, and nothing when no diff touches p or the net change is none.
stack_entry(ds, p) ==
    LET touching == {i \in 1..Len(ds) : p \in DOMAIN ds[i]}
        first == CHOOSE i \in touching : \A j \in touching : i <= j
        final == CHOOSE i \in touching : \A j \in touching : j <= i
    IN  IF touching = {} THEN <<>>
        ELSE IF ds[first][p].old = ds[final][p].new THEN <<>>
        ELSE <<[old |-> ds[first][p].old, new |-> ds[final][p].new]>>

\* UniverseDiff::stack_mul: left-to-right composition of a slice of diffs.
stack_mul(ds) ==
    LET e == [p \in Positions |-> stack_entry(ds, p)]
    IN  [p \in {q \in Positions : e[q] # <<>>} |-> e[p][1]]

(* ------------------------------------------------------------------ *)
(* The Game of Life automaton (game_of_life.rs)                         *)
(* ------------------------------------------------------------------ *)

\* The rows and columns of the 3x3 grid the automaton is exercised on.
Rows == 0..2
Cols == 0..2

\* The positions (row, column) of that grid.
Cells == Rows \X Cols

\* The grids of the automaton.
LifeGrids == [Cells -> States]

\* Grid::get under the boundary policy Fixed(States::default()): the cell
\* when the position is inside the grid, the default (Dead) cell otherwise.
get(grid, row, col) ==
    IF row \in Rows /\ col \in Cols THEN grid[<<row, col>>] ELSE "Dead"

\* The RelCoords of update_cpu: the eight cells of the Moore neighbourhood.
neighbors ==
    <<<<-1, -1>>, <<-1, 0>>, <<-1, 1>>, <<0, 1>>,
      <<1, 1>>, <<1, 0>>, <<1, -1>>, <<0, -1>>>>

\* GridView::get_multiple: the cells at the given offsets of the position.
get_multiple(grid, pos, rel) ==
    [i \in 1..Len(rel) |-> get(grid, pos[1] + rel[i][1], pos[2] + rel[i][2])]

\* The evolution rule of update_cpu for a cell in state `state` with
\* nb_alive_neighbors alive cells around it.
rule(state, nb_alive_neighbors) ==
    IF state = "Dead"
    THEN IF nb_alive_neighbors = 3 THEN "Alive" ELSE "Dead"
    ELSE IF nb_alive_neighbors = 2 \/ nb_alive_neighbors = 3
         THEN "Alive" ELSE "Dead"

\* update_cpu counting the alive cells among the orthogonal neighbours only.
update_cpu_orthogonal(grid, pos) ==
    LET cells == get_multiple(grid, pos,
                              <<<<-1, 0>>, <<0, 1>>, <<1, 0>>, <<0, -1>>>>)
        nb_alive_neighbors ==
            Cardinality({i \in 1..Len(cells) : cells[i] = "Alive"})
    IN  rule(grid[pos], nb_alive_neighbors)

\* GameOfLife::update_cpu on the view of `grid` at `pos`.
update_cpu(grid, pos) ==
    LET cells == get_multiple(grid, pos, neighbors)
        nb_alive_neighbors ==
            Cardinality({i \in 1..Len(cells) : cells[i] = "Alive"})
    IN  rule(grid[pos], nb_alive_neighbors)

\* Universe::step: every cell is updated from the grid of the generation.
step(grid) == [pos \in Cells |-> update_cpu(grid, pos)]

\* The panic of state_from_id on an id that is no state.
InvalidState == "Invalid grid state."

\* id_from_state giving every state the same id.
id_from_state_same(state) == 0

\* GameOfLife::id_from_state
id_from_state(state) ==
    CASE state = "Dead" -> 0
      [] state = "Alive" -> 1

\* GameOfLife::state_from_id
state_from_id(id) ==
    CASE id = 0 -> "Dead"
      [] id = 1 -> "Alive"
      [] OTHER -> InvalidState

\* The grid of default cells, as Grid::new makes it.
DeadUniverse == [pos \in Cells |-> "Dead"]

(* ------------------------------------------------------------------ *)
(* Option values and Rust slices                                        *)
(* ------------------------------------------------------------------ *)

None == [tag |-> "None"]
Some(x) == [tag |-> "Some", val |-> x]
\* A panic of the callee (an index out of bounds, an explicit panic!).
Panic == [tag |-> "Panic"]

\* The Rust slice v[a..b] of a 0-based vector held as a 1-based sequence.
Slice(v, a, b) == SubSeq(v, a + 1, b)

(* ------------------------------------------------------------------ *)
(* UniverseHistory                                                      *)
(* ------------------------------------------------------------------ *)

VARIABLES
    diffs,         \* UniverseHistory.diffs
    checkpoints,   \* UniverseHistory.checkpoints
    f_check,       \* UniverseHistory.f_check
    last,          \* UniverseHistory.last
    queue,         \* the mails in the endpoint's inbound channel, oldest first
    open,          \* whether a sender still holds the channel
    pc,            \* where the service thread is
    pending,       \* the blocking request the nested wait is for
    replies,       \* the responses sent through reply handles, oldest first
    err,           \* the message of the panic that ended the thread
    gens,          \* history variable: the initial grid and the grids pushed
    sent,          \* history variable: the grids sent in Push mails
    reqs,          \* history variable: the mails sent by the clients, by identifier
    waited,        \* history variable: the requests that entered a nested wait
    world,         \* the Game of Life grid of the simulator
    generation,    \* the number of steps the grid has gone through
    origin,        \* history variable: the grid of generation 0
    buffer,        \* the encoded cells of the grid (the homogeneous buffer)
    readback       \* the cells decoded from the buffer

hvars == <<diffs, checkpoints, f_check, last>>
svars == <<queue, open, pc, pending, replies, err, sent, reqs, waited>>
lvars == <<world, generation, origin, buffer, readback>>
vars == <<diffs, checkpoints, f_check, last, queue, open, pc, pending, replies,
          err, gens, sent, reqs, waited, world, generation, origin, buffer,
          readback>>

\* The history as one value.
self == [diffs |-> diffs, checkpoints |-> checkpoints,
         f_check |-> f_check, last |-> last]

\* UniverseHistory::new
new(start_universe, f) ==
    [diffs |-> <<>>, checkpoints |-> <<start_universe>>,
     f_check |-> f, last |-> start_universe]

\* push taking the grid before the push as the checkpoint.
push_checkpoints_previous(h, universe) ==
    LET d  == diff(h.last, universe)
        ds == Append(h.diffs, d)
    IN  [diffs |-> ds,
         checkpoints |->
             IF h.f_check # 0 /\ Len(ds) % h.f_check = 0
             THEN Append(h.checkpoints, h.last)
             ELSE h.checkpoints,
         f_check |-> h.f_check,
         last |-> universe]

\* push leaving `last` as it was.
push_keeps_last(h, universe) ==
    LET d  == diff(h.last, universe)
        ds == Append(h.diffs, d)
    IN  [diffs |-> ds,
         checkpoints |->
             IF h.f_check # 0 /\ Len(ds) % h.f_check = 0
             THEN Append(h.checkpoints, universe)
             ELSE h.checkpoints,
         f_check |-> h.f_check,
         last |-> h.last]

\* push putting the new diff in front of the others.
push_prepends(h, universe) ==
    LET d  == diff(h.last, universe)
        ds == <<d>> \o h.diffs
    IN  [diffs |-> ds,
         checkpoints |->
             IF h.f_check # 0 /\ Len(ds) % h.f_check = 0
             THEN Append(h.checkpoints, universe)
             ELSE h.checkpoints,
         f_check |-> h.f_check,
         last |-> universe]

\* push that never takes a checkpoint.
push_never_checkpoints(h, universe) ==
    LET d  == diff(h.last, universe)
        ds == Append(h.diffs, d)
    IN  [diffs |-> ds,
         checkpoints |-> h.checkpoints,
         f_check |-> h.f_check,
         last |-> universe]

\* push with the checkpoint test made before the diff is appended.
push_check_before_append(h, universe) ==
    LET d  == diff(h.last, universe)
        ds == Append(h.diffs, d)
    IN  [diffs |-> ds,
         checkpoints |->
             IF h.f_check # 0 /\ Len(h.diffs) % h.f_check = 0
             THEN Append(h.checkpoints, universe)
             ELSE h.checkpoints,
         f_check |-> h.f_check,
         last |-> universe]

\* UniverseHistory::push
push(h, universe) ==
    LET d  == diff(h.last, universe)
        ds == Append(h.diffs, d)
    IN  [diffs |-> ds,
         checkpoints |->
             IF h.f_check # 0 /\ Len(ds) % h.f_check = 0
             THEN Append(h.checkpoints, universe)
             ELSE h.checkpoints,
         f_check |-> h.f_check,
         last |-> universe]

\* get_gen with the availability test off by one (<= for <).
get_gen_le(h, gen) ==
    IF Len(h.diffs) <= gen THEN None
    ELSE IF h.f_check # 0
    THEN LET idx   == gen \div h.f_check
             shift == gen % h.f_check
         IN  IF idx + 1 > Len(h.checkpoints) THEN Panic
             ELSE Some(apply_diff(h.checkpoints[idx + 1],
                                  stack_mul(Slice(h.diffs, gen - shift, gen))))
    ELSE Some(apply_diff(h.checkpoints[1], stack_mul(Slice(h.diffs, 0, gen))))

\* UniverseHistory::get_gen
get_gen(h, gen) ==
    IF Len(h.diffs) < gen THEN None
    ELSE IF h.f_check # 0
    THEN LET idx   == gen \div h.f_check
             shift == gen % h.f_check
         IN  IF idx + 1 > Len(h.checkpoints) THEN Panic
             ELSE Some(apply_diff(h.checkpoints[idx + 1],
                                  stack_mul(Slice(h.diffs, gen - shift, gen))))
    ELSE Some(apply_diff(h.checkpoints[1], stack_mul(Slice(h.diffs, 0, gen))))

\* get_gen replaying every diff from checkpoints[0] whatever f_check is.
get_gen_reads_from_start(h, gen) ==
    [checkpoint |-> 0, from |-> 0, to |-> gen]

\* What get_gen reads for an available generation: the index of the checkpoint
\* it starts from and the bounds of the slice of diffs it stacks.
get_gen_reads(h, gen) ==
    IF h.f_check # 0
    THEN LET idx   == gen \div h.f_check
             shift == gen % h.f_check
         IN  [checkpoint |-> idx, from |-> gen - shift, to |-> gen]
    ELSE [checkpoint |-> 0, from |-> 0, to |-> gen]

\* get_diff stacking from the first diff whatever the reference generation.
get_diff_from_start(h, ref_gen, target_gen) ==
    IF target_gen < ref_gen THEN Panic
    ELSE IF Len(h.diffs) < target_gen THEN None
    ELSE Some(stack_mul(Slice(h.diffs, 0, target_gen)))

\* UniverseHistory::get_diff
get_diff(h, ref_gen, target_gen) ==
    IF target_gen < ref_gen THEN Panic
    ELSE IF Len(h.diffs) < target_gen THEN None
    ELSE Some(stack_mul(Slice(h.diffs, ref_gen, target_gen)))

(* ------------------------------------------------------------------ *)
(* The mails of the service (HistoryRequest, HistoryResponse)           *)
(* ------------------------------------------------------------------ *)

\* The grid of default cells (States::default() is Dead); it fills the fields
\* a mail or a response does not use.
DeadGrid == [p \in Positions |-> "Dead"]

\* HistoryRequest::Push(grid) in a mail; `handle` tells whether the mail came
\* with a reply handle (MailType::Message(msg, Some(req))) or without.
PushMail(grid, handle, id) ==
    [type |-> "Push", grid |-> grid, gen |-> 0, ref_gen |-> 0, target_gen |-> 0,
     blocking |-> FALSE, handle |-> handle, id |-> id]

\* HistoryRequest::GetGen(gen, blocking) in a mail.
GetGenMail(gen, blocking, handle, id) ==
    [type |-> "GetGen", grid |-> DeadGrid, gen |-> gen, ref_gen |-> 0,
     target_gen |-> 0, blocking |-> blocking, handle |-> handle, id |-> id]

\* HistoryRequest::GetDiff(ref_gen, target_gen, blocking) in a mail.
GetDiffMail(ref_gen, target_gen, blocking, handle, id) ==
    [type |-> "GetDiff", grid |-> DeadGrid, gen |-> 0, ref_gen |-> ref_gen,
     target_gen |-> target_gen, blocking |-> blocking, handle |-> handle,
     id |-> id]

\* No request is pending.
NoMail ==
    [type |-> "None", grid |-> DeadGrid, gen |-> 0, ref_gen |-> 0,
     target_gen |-> 0, blocking |-> FALSE, handle |-> FALSE, id |-> 0]

\* HistoryResponse::GetGen(opt) sent through the reply handle of request id.
GetGenResponse(id, opt) ==
    [id |-> id, variant |-> "GetGen", tag |-> opt.tag,
     grid |-> IF opt.tag = "Some" THEN opt.val ELSE DeadGrid,
     diff |-> EmptyDiff]

\* HistoryResponse::GetDiff(opt) sent through the reply handle of request id.
GetDiffResponse(id, opt) ==
    [id |-> id, variant |-> "GetDiff", tag |-> opt.tag,
     grid |-> DeadGrid,
     diff |-> IF opt.tag = "Some" THEN opt.val ELSE EmptyDiff]

ERR_INCORRECT_DIFF == "Base generation should be smaller than target generation."
ERR_INCOMPATIBLE_MAIL_TYPE ==
    "The received HistoryRequest is incompatible with the MailType it's included in."
\* The panic of an index out of the bounds of checkpoints.
ERR_INDEX == "index out of bounds"

(* ------------------------------------------------------------------ *)
(* Initial state                                                        *)
(* ------------------------------------------------------------------ *)

\* The service variables when the thread is spawned.
ServiceInit ==
    /\ queue = <<>>
    /\ open = TRUE
    /\ pc = "main"
    /\ pending = NoMail
    /\ replies = <<>>
    /\ err = ""
    /\ sent = <<>>
    /\ reqs = <<>>
    /\ waited = {}

\* The history is new(g0, f).
IsNew(g0, f) ==
    /\ diffs = new(g0, f).diffs
    /\ checkpoints = new(g0, f).checkpoints
    /\ f_check = new(g0, f).f_check
    /\ last = new(g0, f).last
    /\ gens = <<g0>>

\* The automaton is not run: its grid is the grid of default cells.
LifeIdle ==
    /\ world = DeadUniverse
    /\ generation = 0
    /\ origin = DeadUniverse
    /\ buffer = None
    /\ readback = None

\* UniverseHistory::new(g0, f), for every initial grid and frequency.
HistInit ==
    /\ \E g0 \in Grids, f \in FChecks : IsNew(g0, f)
    /\ ServiceInit
    /\ LifeIdle

\* The grids of the service runs: every cell in the same state.
UniformGrids == {[p \in Positions |-> c] : c \in States}

\* The checkpoint frequencies of the service runs: no checkpoint, and one
\* every second generation.
ServiceFChecks == {0, 2}

\* UniverseHistory::new(g0, f).detach(endpoint): a history started on the grid
\* of default cells is moved into the service thread.
Init ==
    /\ \E f \in ServiceFChecks : IsNew(DeadGrid, f)
    /\ ServiceInit
    /\ LifeIdle

\* The history takes the value h.
Becomes(h) ==
    /\ diffs' = h.diffs
    /\ checkpoints' = h.checkpoints
    /\ f_check' = h.f_check
    /\ last' = h.last

(* ------------------------------------------------------------------ *)
(* Direct calls (HistSpec, DiffSpec)                                    *)
(* ------------------------------------------------------------------ *)

\* A direct call of push by the owner of the history.
CallPush(universe) ==
    /\ Len(diffs) < MaxGen
    /\ Becomes(push(self, universe))
    /\ gens' = Append(gens, universe)
    /\ UNCHANGED <<svars, lvars>>

HistNext == \E u \in Grids : CallPush(u)

HistSpec == HistInit /\ [][HistNext]_vars

\* The histories of at most MaxDiffGen pushes.
DiffNext == Len(diffs) < MaxDiffGen /\ \E u \in Grids : CallPush(u)

DiffSpec == HistInit /\ [][DiffNext]_vars

(* ------------------------------------------------------------------ *)
(* The automaton run on its own (LifeSpec)                              *)
(* ------------------------------------------------------------------ *)

\* The automaton starts on any grid; no history service is running.
LifeInit ==
    /\ world \in LifeGrids
    /\ generation = 0
    /\ origin = world
    /\ buffer = None
    /\ readback = None
    /\ IsNew(DeadGrid, 0)
    /\ ServiceInit

\* One generation: the grid becomes step(grid); the buffer of the old grid is
\* dropped.
Step ==
    /\ generation < MaxStep
    /\ world' = step(world)
    /\ generation' = generation + 1
    /\ buffer' = None
    /\ readback' = None
    /\ UNCHANGED <<hvars, gens, svars, origin>>

\* The cells of the grid are encoded into the buffer.
Encode ==
    /\ buffer.tag = "None"
    /\ buffer' = Some([pos \in Cells |-> id_from_state(world[pos])])
    /\ UNCHANGED <<hvars, gens, svars, world, generation, origin, readback>>

\* The cells of the buffer are decoded.
Decode ==
    /\ buffer.tag = "Some"
    /\ readback.tag = "None"
    /\ readback' = Some([pos \in Cells |-> state_from_id(buffer.val[pos])])
    /\ UNCHANGED <<hvars, gens, svars, world, generation, origin, buffer>>

LifeNext == Step \/ Encode \/ Decode

LifeSpec == LifeInit /\ [][LifeNext]_vars

(* ------------------------------------------------------------------ *)
(* The service thread (UniverseHistory::detach)                         *)
(* ------------------------------------------------------------------ *)

\* The thread panics with message e: it ends, and the reply handle it holds
\* is dropped.
PanicWith(e) ==
    /\ pc' = "panicked"
    /\ err' = e
    /\ UNCHANGED <<hvars, gens, pending, replies>>

\* req.respond(response)
Respond(response) == replies' = Append(replies, response)

\* The Push arm of the main loop taking the grid out of the channel and
\* dropping it.
MainPush_Skips ==
    /\ pc = "main"
    /\ queue # <<>>
    /\ Head(queue).type = "Push"
    /\ ~Head(queue).handle
    /\ queue' = Tail(queue)
    /\ UNCHANGED <<hvars, gens>>
    /\ UNCHANGED <<open, pc, pending, replies, err, sent, reqs, waited, lvars>>

\* Main loop, Message(Push(grid), None): the grid is pushed.
MainPush ==
    /\ pc = "main"
    /\ queue # <<>>
    /\ Head(queue).type = "Push"
    /\ ~Head(queue).handle
    /\ queue' = Tail(queue)
    /\ Becomes(push(self, Head(queue).grid))
    /\ gens' = Append(gens, Head(queue).grid)
    /\ UNCHANGED <<open, pc, pending, replies, err, sent, reqs, waited, lvars>>

\* Main loop, Message(msg, None) with msg no Push: panic.
MainIncompatibleMessage ==
    /\ pc = "main"
    /\ queue # <<>>
    /\ Head(queue).type # "Push"
    /\ ~Head(queue).handle
    /\ queue' = Tail(queue)
    /\ PanicWith(ERR_INCOMPATIBLE_MAIL_TYPE)
    /\ UNCHANGED <<open, sent, reqs, waited, lvars>>

\* The GetGen arm of the main loop keeping the grid it was asked for as a
\* checkpoint.
MainGetGen_KeepsCheckpoint ==
    /\ pc = "main"
    /\ queue # <<>>
    /\ Head(queue).type = "GetGen"
    /\ Head(queue).handle
    /\ queue' = Tail(queue)
    /\ LET m == Head(queue)
           r == get_gen(self, m.gen)
       IN  CASE r.tag = "Some" ->
                 /\ Respond(GetGenResponse(m.id, r))
                 /\ UNCHANGED <<pc, pending, err, waited>>
             [] r.tag = "None" /\ m.blocking ->
                 /\ pc' = "wait_gen"
                 /\ pending' = m
                 /\ waited' = waited \cup {m.id}
                 /\ UNCHANGED <<replies, err>>
             [] r.tag = "None" /\ ~m.blocking ->
                 /\ Respond(GetGenResponse(m.id, None))
                 /\ UNCHANGED <<pc, pending, err, waited>>
             [] r.tag = "Panic" ->
                 /\ pc' = "panicked"
                 /\ err' = ERR_INDEX
                 /\ UNCHANGED <<pending, replies, waited>>
    /\ checkpoints' = IF get_gen(self, Head(queue).gen).tag = "Some"
                      THEN Append(checkpoints, get_gen(self, Head(queue).gen).val)
                      ELSE checkpoints
    /\ UNCHANGED <<diffs, f_check, last, gens, open, sent, reqs, lvars>>

\* Main loop, Message(GetGen(gen, blocking), Some(req)).
MainGetGen ==
    /\ pc = "main"
    /\ queue # <<>>
    /\ Head(queue).type = "GetGen"
    /\ Head(queue).handle
    /\ queue' = Tail(queue)
    /\ LET m == Head(queue)
           r == get_gen(self, m.gen)
       IN  CASE r.tag = "Some" ->
                 /\ Respond(GetGenResponse(m.id, r))
                 /\ UNCHANGED <<pc, pending, err, waited>>
             [] r.tag = "None" /\ m.blocking ->
                 /\ pc' = "wait_gen"
                 /\ pending' = m
                 /\ waited' = waited \cup {m.id}
                 /\ UNCHANGED <<replies, err>>
             [] r.tag = "None" /\ ~m.blocking ->
                 /\ Respond(GetGenResponse(m.id, None))
                 /\ UNCHANGED <<pc, pending, err, waited>>
             [] r.tag = "Panic" ->
                 /\ pc' = "panicked"
                 /\ err' = ERR_INDEX
                 /\ UNCHANGED <<pending, replies, waited>>
    /\ UNCHANGED <<hvars, gens, open, sent, reqs, lvars>>

\* The GetDiff arm of the main loop dropping a non-blocking request whose
\* target is not there yet, with no reply.
MainGetDiff_NoReplyNotYet ==
    /\ pc = "main"
    /\ queue # <<>>
    /\ Head(queue).type = "GetDiff"
    /\ Head(queue).handle
    /\ queue' = Tail(queue)
    /\ LET m == Head(queue)
           r == get_diff(self, m.ref_gen, m.target_gen)
       IN  CASE r.tag = "Some" ->
                 /\ Respond(GetDiffResponse(m.id, r))
                 /\ UNCHANGED <<pc, pending, err, waited>>
             [] r.tag = "None" /\ m.blocking ->
                 /\ pc' = "wait_diff"
                 /\ pending' = m
                 /\ waited' = waited \cup {m.id}
                 /\ UNCHANGED <<replies, err>>
             [] r.tag = "None" /\ ~m.blocking ->
                 UNCHANGED <<pc, pending, replies, err, waited>>
             [] r.tag = "Panic" ->
                 /\ pc' = "panicked"
                 /\ err' = ERR_INCORRECT_DIFF
                 /\ UNCHANGED <<pending, replies, waited>>
    /\ UNCHANGED <<hvars, gens, open, sent, reqs, lvars>>

\* Main loop, Message(GetDiff(ref_gen, target_gen, blocking), Some(req)).
MainGetDiff ==
    /\ pc = "main"
    /\ queue # <<>>
    /\ Head(queue).type = "GetDiff"
    /\ Head(queue).handle
    /\ queue' = Tail(queue)
    /\ LET m == Head(queue)
           r == get_diff(self, m.ref_gen, m.target_gen)
       IN  CASE r.tag = "Some" ->
                 /\ Respond(GetDiffResponse(m.id, r))
                 /\ UNCHANGED <<pc, pending, err, waited>>
             [] r.tag = "None" /\ m.blocking ->
                 /\ pc' = "wait_diff"
                 /\ pending' = m
                 /\ waited' = waited \cup {m.id}
                 /\ UNCHANGED <<replies, err>>
             [] r.tag = "None" /\ ~m.blocking ->
                 /\ Respond(GetGenResponse(m.id, None))
                 /\ UNCHANGED <<pc, pending, err, waited>>
             [] r.tag = "Panic" ->
                 /\ pc' = "panicked"
                 /\ err' = ERR_INCORRECT_DIFF
                 /\ UNCHANGED <<pending, replies, waited>>
    /\ UNCHANGED <<hvars, gens, open, sent, reqs, lvars>>

\* Main loop, Message(Push(grid), Some(req)): panic.
MainIncompatibleRequest ==
    /\ pc = "main"
    /\ queue # <<>>
    /\ Head(queue).type = "Push"
    /\ Head(queue).handle
    /\ queue' = Tail(queue)
    /\ PanicWith(ERR_INCOMPATIBLE_MAIL_TYPE)
    /\ UNCHANGED <<open, sent, reqs, waited, lvars>>

\* The DeadChannel arm going round the loop instead of breaking out of it.
MainDeadChannel_Continues ==
    /\ pc = "main"
    /\ queue = <<>>
    /\ ~open
    /\ UNCHANGED vars

\* Main loop, DeadChannel: the loop breaks and the thread ends.
MainDeadChannel ==
    /\ pc = "main"
    /\ queue = <<>>
    /\ ~open
    /\ pc' = "done"
    /\ UNCHANGED <<hvars, gens, queue, open, pending, replies, err, sent, reqs,
                   waited, lvars>>

\* The Push arm of the nested wait of GetGen asking the generation of the
\* history as it was before the push.
NestedGetGenPush_AsksBeforePush ==
    /\ pc = "wait_gen"
    /\ queue # <<>>
    /\ Head(queue).type = "Push"
    /\ queue' = Tail(queue)
    /\ Becomes(push(self, Head(queue).grid))
    /\ gens' = Append(gens, Head(queue).grid)
    /\ LET r == get_gen(self, pending.gen)
       IN  CASE r.tag = "Some" ->
                 /\ Respond(GetGenResponse(pending.id, r))
                 /\ pc' = "main"
                 /\ pending' = NoMail
                 /\ err' = err
             [] r.tag = "None" ->
                 UNCHANGED <<pc, pending, replies, err>>
             [] r.tag = "Panic" ->
                 /\ pc' = "panicked"
                 /\ err' = ERR_INDEX
                 /\ UNCHANGED <<pending, replies>>
    /\ UNCHANGED <<open, sent, reqs, waited, lvars>>

\* Nested wait of a blocking GetGen, wait_for_msg returns Push(grid): the grid
\* is pushed and the generation asked again; the answer ends the wait.
NestedGetGenPush ==
    /\ pc = "wait_gen"
    /\ queue # <<>>
    /\ Head(queue).type = "Push"
    /\ queue' = Tail(queue)
    /\ Becomes(push(self, Head(queue).grid))
    /\ gens' = Append(gens, Head(queue).grid)
    /\ LET r == get_gen(push(self, Head(queue).grid), pending.gen)
       IN  CASE r.tag = "Some" ->
                 /\ Respond(GetGenResponse(pending.id, r))
                 /\ pc' = "main"
                 /\ pending' = NoMail
                 /\ err' = err
             [] r.tag = "None" ->
                 UNCHANGED <<pc, pending, replies, err>>
             [] r.tag = "Panic" ->
                 /\ pc' = "panicked"
                 /\ err' = ERR_INDEX
                 /\ UNCHANGED <<pending, replies>>
    /\ UNCHANGED <<open, sent, reqs, waited, lvars>>

\* The Push arm of the nested wait of GetDiff pushing the grid and never
\* asking the diff again.
NestedGetDiffPush_NoRecheck ==
    /\ pc = "wait_diff"
    /\ queue # <<>>
    /\ Head(queue).type = "Push"
    /\ queue' = Tail(queue)
    /\ Becomes(push(self, Head(queue).grid))
    /\ gens' = Append(gens, Head(queue).grid)
    /\ UNCHANGED <<pc, pending, replies, err>>
    /\ UNCHANGED <<open, sent, reqs, waited, lvars>>

\* Nested wait of a blocking GetDiff, wait_for_msg returns Push(grid).
NestedGetDiffPush ==
    /\ pc = "wait_diff"
    /\ queue # <<>>
    /\ Head(queue).type = "Push"
    /\ queue' = Tail(queue)
    /\ Becomes(push(self, Head(queue).grid))
    /\ gens' = Append(gens, Head(queue).grid)
    /\ LET r == get_diff(push(self, Head(queue).grid),
                         pending.ref_gen, pending.target_gen)
       IN  CASE r.tag = "Some" ->
                 /\ Respond(GetDiffResponse(pending.id, r))
                 /\ pc' = "main"
                 /\ pending' = NoMail
                 /\ err' = err
             [] r.tag = "None" ->
                 UNCHANGED <<pc, pending, replies, err>>
             [] r.tag = "Panic" ->
                 /\ pc' = "panicked"
                 /\ err' = ERR_INCORRECT_DIFF
                 /\ UNCHANGED <<pending, replies>>
    /\ UNCHANGED <<open, sent, reqs, waited, lvars>>

\* The other arm of the nested wait dropping the request and waiting on.
NestedIncompatible_Ignores ==
    /\ pc \in {"wait_gen", "wait_diff"}
    /\ queue # <<>>
    /\ Head(queue).type # "Push"
    /\ queue' = Tail(queue)
    /\ UNCHANGED <<hvars, gens, pc, pending, replies, err>>
    /\ UNCHANGED <<open, sent, reqs, waited, lvars>>

\* Nested wait, wait_for_msg returns a request that is no Push: panic.
NestedIncompatible ==
    /\ pc \in {"wait_gen", "wait_diff"}
    /\ queue # <<>>
    /\ Head(queue).type # "Push"
    /\ queue' = Tail(queue)
    /\ PanicWith(ERR_INCOMPATIBLE_MAIL_TYPE)
    /\ UNCHANGED <<open, sent, reqs, waited, lvars>>

\* wait_for_msg on the closed channel never returning: the thread stays blocked.
NestedDeadChannel_Hangs ==
    /\ pc \in {"wait_gen", "wait_diff"}
    /\ queue = <<>>
    /\ ~open
    /\ UNCHANGED vars

\* Nested wait, every sender has dropped its handle and no mail is left:
\* wait_for_msg has no request to return; the thread ends and the pending
\* reply handle is dropped.
NestedDeadChannel ==
    /\ pc \in {"wait_gen", "wait_diff"}
    /\ queue = <<>>
    /\ ~open
    /\ pc' = "done"
    /\ UNCHANGED <<hvars, gens, queue, open, pending, replies, err, sent, reqs,
                   waited, lvars>>

\* One step of the service thread.
Service ==
    \/ MainPush
    \/ MainIncompatibleMessage
    \/ MainGetGen
    \/ MainGetDiff
    \/ MainIncompatibleRequest
    \/ MainDeadChannel
    \/ NestedGetGenPush
    \/ NestedGetDiffPush
    \/ NestedIncompatible
    \/ NestedDeadChannel

(* ------------------------------------------------------------------ *)
(* The senders: the driver and the query clients                        *)
(* ------------------------------------------------------------------ *)

\* The generations a query asks for.
QueryGens == 0..MaxPush

\* The ranges (ref_gen, target_gen) a query asks for: the whole history, one
\* generation, and a range with ref_gen > target_gen.
DiffRanges == {<<0, MaxPush>>, <<0, 1>>, <<1, 0>>}

\* The mails other than a plain Push that a sender may send as mail number id:
\* the queries as requests (with a reply handle), and the mails whose kind does
\* not fit their request (a query without a reply handle, a Push with one).
Mails(id) ==
    {GetGenMail(g, b, TRUE, id) : g \in QueryGens, b \in BOOLEAN}
    \cup {GetDiffMail(r[1], r[2], b, TRUE, id) : r \in DiffRanges, b \in BOOLEAN}
    \cup {GetGenMail(0, FALSE, FALSE, id), GetDiffMail(0, 0, FALSE, FALSE, id),
          PushMail(DeadGrid, TRUE, id)}

\* The number of Push messages the driver has sent.
PlainPushes ==
    Len(sent) - Cardinality({i \in 1..Len(reqs) : reqs[i].type = "Push"})

\* The driver sends Push(grid) as a plain message.
SendPush(grid) ==
    /\ open
    /\ PlainPushes < MaxPush
    /\ queue' = Append(queue, PushMail(grid, FALSE, 0))
    /\ sent' = Append(sent, grid)
    /\ UNCHANGED <<hvars, gens, open, pc, pending, replies, err, reqs, waited, lvars>>

\* A client sends the mail m.
SendMail(m) ==
    /\ open
    /\ Len(reqs) < MaxReq
    /\ queue' = Append(queue, m)
    /\ reqs' = Append(reqs, m)
    /\ sent' = IF m.type = "Push" THEN Append(sent, m.grid) ELSE sent
    /\ UNCHANGED <<hvars, gens, open, pc, pending, replies, err, waited, lvars>>

\* The last sender drops its handle of the channel.
Close ==
    /\ open
    /\ open' = FALSE
    /\ UNCHANGED <<hvars, gens, queue, pc, pending, replies, err, sent, reqs,
                   waited, lvars>>

Next ==
    \/ Service
    \/ \E u \in UniformGrids : SendPush(u)
    \/ \E m \in Mails(Len(reqs) + 1) : SendMail(m)
    \/ Close

Spec == Init /\ [][Next]_vars

\* The service thread is scheduled: a step it can take is taken.
FairSpec == Spec /\ WF_vars(Service)

\* The service thread is scheduled, and the driver goes on to send its grids
\* while the channel is open.
LiveSpec == Spec /\ WF_vars(Service) /\ WF_vars(\E u \in UniformGrids : SendPush(u))

(* ------------------------------------------------------------------ *)
(* Claims on the history (HistSpec)                                     *)
(* ------------------------------------------------------------------ *)

\* C1: after n pushes of g1..gn onto new(g0, f_check), f_check in {0, 1, 2, 5},
\* get_gen(g) returns Some(g_g) for every g in 0..n.
C1_GetGenReplays ==
    \A g \in 0..Len(diffs) :
        /\ get_gen(self, g).tag = "Some"
        /\ get_gen(self, g).val = gens[g + 1]

\* C1 witness: f_check = 5 and six pushes, the sixth changing the grid, so that
\* generation 6 is rebuilt from the checkpoint of generation 5 and one diff.
C1_Witness ==
    /\ f_check = 5
    /\ Len(diffs) = 6
    /\ gens[7] # gens[6]
    /\ gens[6] # gens[1]
    /\ get_gen(self, 6).tag = "Some"
    /\ get_gen(self, 6).val = gens[7]

\* C2: get_gen(g) returns None if and only if g > diffs.len(), and Some grid for
\* every g <= diffs.len().
C2_NoneIffBeyond ==
    \A g \in 0..(MaxGen + 2) :
        /\ (get_gen(self, g).tag = "None") <=> (g > Len(diffs))
        /\ (g <= Len(diffs)) => (get_gen(self, g).tag = "Some")

\* C2 witness: three generations pushed; generation 3 is there, 4 is not yet.
C2_Witness ==
    /\ Len(diffs) = 3
    /\ get_gen(self, 3).tag = "Some"
    /\ get_gen(self, 4).tag = "None"

\* C5: for all a <= b <= c <= n, get_diff(a, c), get_diff(a, b) and
\* get_diff(b, c) are Some, and get_diff(a, c) is the stack of get_diff(a, b)
\* followed by get_diff(b, c).
C5_DiffComposes ==
    \A a \in 0..Len(diffs) : \A b \in a..Len(diffs) : \A c \in b..Len(diffs) :
        /\ get_diff(self, a, b).tag = "Some"
        /\ get_diff(self, b, c).tag = "Some"
        /\ get_diff(self, a, c).tag = "Some"
        /\ get_diff(self, a, c).val =
               stack_mul(<<get_diff(self, a, b).val, get_diff(self, b, c).val>>)

\* C5 witness: a cell that changes in 1..2 and changes back in 2..3, so that the
\* composed diff of 1..3 drops it while both parts hold it.
C5_Witness ==
    /\ Len(diffs) >= 3
    /\ \E p \in Positions :
          /\ p \in DOMAIN get_diff(self, 1, 2).val
          /\ p \in DOMAIN get_diff(self, 2, 3).val
          /\ p \notin DOMAIN get_diff(self, 1, 3).val
    /\ get_diff(self, 0, 3).val # EmptyDiff
    /\ get_diff(self, 1, 3).val =
           stack_mul(<<get_diff(self, 1, 2).val, get_diff(self, 2, 3).val>>)

(* ------------------------------------------------------------------ *)
(* Claims on the service (Spec, FairSpec, LiveSpec)                     *)
(* ------------------------------------------------------------------ *)

\* The service is in the nested wait of a blocking query.
InWait == pc \in {"wait_gen", "wait_diff"}

\* Request id has been answered / answered with Some(...).
Answered(id) == \E i \in 1..Len(replies) : replies[i].id = id
AnsweredSome(id) ==
    \E i \in 1..Len(replies) : replies[i].id = id /\ replies[i].tag = "Some"

\* The service thread takes a mail out of the channel in this step.
Dequeues == queue # <<>> /\ queue' = Tail(queue)

\* C3: a blocking query (GetGen, or GetDiff with ref <= tgt) received when its
\* target is beyond diffs.len() is eventually answered with Some(...), provided
\* enough Push messages and no other request arrive, the service thread being
\* scheduled and the driver going on sending while the channel is open: the
\* nested wait always ends; it ends back in the main loop only by sending Some(...)
\* to the pending request, by a panic only on a request that is no Push, and by
\* the end of the thread only on the closed, empty channel.
C3_BlockingEventuallyAnswered ==
    /\ InWait ~> ~InWait
    /\ [](pc = "wait_diff" => pending.ref_gen <= pending.target_gen)
    /\ [][(InWait /\ pc' = "main")
            => /\ Len(replies') = Len(replies) + 1
               /\ replies'[Len(replies')].id = pending.id
               /\ replies'[Len(replies')].tag = "Some"
               /\ replies'[Len(replies')].variant = pending.type]_vars
    /\ [][(InWait /\ pc' = "panicked") => (Dequeues /\ Head(queue).type # "Push")]_vars
    /\ [][(InWait /\ pc' = "done") => (~open /\ queue = <<>>)]_vars

\* C3 witness: a blocking GetGen and a blocking GetDiff have both entered the
\* nested wait and both have been answered with Some(...).
C3_Witness ==
    /\ Len(replies) = 2
    /\ waited = {1, 2}
    /\ \E i, j \in {1, 2} : reqs[i].type = "GetGen" /\ reqs[j].type = "GetDiff"
    /\ AnsweredSome(1)
    /\ AnsweredSome(2)
    /\ pc = "main"

\* C4: a pending blocking GetGen(g, true) is answered in the step that handles
\* the first Push bringing diffs.len() to g, with the grid of generation g:
\* while the wait lasts diffs.len() < g and the request is not answered, and the
\* step that reaches g sends the answer and leaves the wait.
C4_AnsweredAtFirstSatisfyingPush ==
    /\ [](pc = "wait_gen" => (Len(diffs) < pending.gen /\ ~Answered(pending.id)))
    /\ [][(pc = "wait_gen" /\ Len(diffs') >= pending.gen /\ Len(diffs') # Len(diffs))
            => /\ Len(diffs') = pending.gen
               /\ Dequeues
               /\ pc' = "main"
               /\ replies' = Append(replies,
                      GetGenResponse(pending.id, Some(gens'[pending.gen + 1])))]_vars

\* C4 witness: GetGen(2, true) entered the wait, and has just been answered, by
\* the push of generation 2 (a grid that differs from generation 1), while
\* nothing else has been taken out of the channel since.
C4_Witness ==
    /\ pc = "main"
    /\ Len(replies) = 1
    /\ replies[1].id \in waited
    /\ reqs[replies[1].id].type = "GetGen"
    /\ reqs[replies[1].id].gen = 2
    /\ Len(diffs) = 2
    /\ gens[3] # gens[2]
    /\ replies[1].grid = gens[3]
    /\ queue # <<>>

\* C6: a GetDiff request with ref_gen > target_gen is fatal only to that request:
\* handling it leaves the history unchanged and the service goes on (it is back
\* in its main loop).
C6_InvalidRangeKeepsService ==
    [][(/\ pc = "main"
        /\ Dequeues
        /\ Head(queue).type = "GetDiff"
        /\ Head(queue).handle
        /\ Head(queue).ref_gen > Head(queue).target_gen)
        => (pc' = "main" /\ UNCHANGED hvars)]_vars

\* C7: every reply to a GetDiff request is of the variant GetDiff, and every
\* reply to a GetGen request is of the variant GetGen.
C7_ReplyVariantMatchesRequest ==
    \A i \in 1..Len(replies) : replies[i].variant = reqs[replies[i].id].type

\* C8: a request that is no Push, taken out of the channel during a nested wait,
\* is fatal to the service: the thread panics, and from then on no Push is
\* applied and no reply is sent, so that neither the pending query nor the
\* offending request is ever answered.
C8_ProtocolViolationIsFatal ==
    /\ [][(InWait /\ Dequeues /\ Head(queue).type # "Push")
            => /\ pc' = "panicked"
               /\ err' = ERR_INCOMPATIBLE_MAIL_TYPE
               /\ UNCHANGED <<hvars, replies>>
               /\ ~Answered(pending.id)
               /\ ~Answered(Head(queue).id)]_vars
    /\ [][pc = "panicked" => UNCHANGED <<pc, hvars, replies>>]_vars

\* C8 witness: the thread has panicked in a nested wait on a query sent as a
\* request, and a Push is left in the channel.
C8_Witness ==
    /\ pc = "panicked"
    /\ pending.type # "None"
    /\ Len(reqs) = 2
    /\ reqs[2].type \in {"GetGen", "GetDiff"}
    /\ reqs[2].handle
    /\ \A i \in 1..Len(queue) : queue[i].id # 2
    /\ \E i \in 1..Len(queue) : queue[i].type = "Push"
    /\ ~Answered(1)
    /\ ~Answered(2)

\* The channel is closed and empty while the service is in a nested wait.
DeadInWait == InWait /\ ~open /\ queue = <<>>

DeadInMain == pc = "main" /\ ~open /\ queue = <<>>

\* C10: when the main loop finds the channel closed by every sender, the thread
\* ends: it stops for good, without a panic, mutates the history no further and
\* sends no further reply, and every Push sent before the closure was applied.
C10_DeadChannelEndsLoop ==
    /\ DeadInMain ~> pc = "done"
    /\ [][DeadInMain => (pc' = "done" /\ UNCHANGED <<hvars, replies, err>>)]_vars
    /\ [][pc = "done" => UNCHANGED <<pc, hvars, replies, err>>]_vars
    /\ [](pc = "done" =>
            (err = "" /\ queue = <<>> /\ gens = <<gens[1]>> \o sent))

\* C10 witness: the thread has ended from its main loop after two pushes and
\* two answered requests.
C10_Witness ==
    /\ pc = "done"
    /\ pending.type = "None"
    /\ Len(sent) = 2
    /\ Len(diffs) = 2
    /\ Len(replies) = 2

\* The grids of the Push mails that wait in the channel, oldest first.
IsPush(m) == m.type = "Push"
QueuedGrids ==
    LET P == SelectSeq(queue, IsPush)
    IN  [i \in 1..Len(P) |-> P[i].grid]

\* C11: Push messages are applied in arrival order, in the main loop and in a
\* nested wait alike: the grids pushed are a prefix of the grids sent, the
\* k-th diff is diff(g_{k-1}, g_k), a step that pushes takes the oldest mail of
\* the channel and appends its grid, and as long as the thread has not
\* panicked the grids pushed followed by the grids that wait in the channel
\* are the grids sent (none skipped, duplicated or reordered).
C11_PushesInArrivalOrder ==
    /\ [](/\ Len(gens) <= Len(sent) + 1
          /\ gens = SubSeq(<<DeadGrid>> \o sent, 1, Len(gens))
          /\ Len(diffs) = Len(gens) - 1
          /\ \A k \in 1..Len(diffs) : diffs[k] = diff(gens[k], gens[k + 1])
          /\ last = gens[Len(gens)])
    /\ [](pc # "panicked" => gens \o QueuedGrids = <<DeadGrid>> \o sent)
    /\ [][gens' # gens
            => /\ Dequeues
               /\ Head(queue).type = "Push"
               /\ gens' = Append(gens, Head(queue).grid)]_vars

\* C11 witness: a blocking GetDiff(0, 1) entered the nested wait on the new
\* history and was answered there by the first Push; the second Push, of
\* another grid, was applied by the main loop.
C11_Witness ==
    /\ pc = "main"
    /\ waited = {1}
    /\ reqs[1].type = "GetDiff"
    /\ reqs[1].target_gen = 1
    /\ AnsweredSome(1)
    /\ Len(sent) = 2
    /\ sent[1] # DeadGrid
    /\ sent[2] # sent[1]
    /\ gens = <<DeadGrid>> \o sent
    /\ Len(diffs) = 2

(* ------------------------------------------------------------------ *)
(* Claims on the automaton (LifeSpec)                                   *)
(* ------------------------------------------------------------------ *)

\* The grid whose alive cells are the given positions.
Alive(cells) == [pos \in Cells |-> IF pos \in cells THEN "Alive" ELSE "Dead"]

\* The Blinker and its other phase.
Blinker == Alive({<<1, 0>>, <<1, 1>>, <<1, 2>>})
BlinkerTurned == Alive({<<0, 1>>, <<1, 1>>, <<2, 1>>})

\* C12: under the Game of Life rule with a Fixed-dead boundary, the Blinker
\* {(1,0),(1,1),(1,2)} on a 3x3 grid becomes {(0,1),(1,1),(2,1)} after one step
\* and is the initial grid again after two steps; and a step follows the rule:
\* a dead cell becomes alive iff exactly 3 of its 8 Moore neighbours are alive,
\* an alive cell stays alive iff 2 or 3 are.
C12_BlinkerOscillates ==
    /\ []((origin = Blinker /\ generation = 1) => world = BlinkerTurned)
    /\ []((origin = Blinker /\ generation = 2) => world = Blinker)
    /\ [][generation' = generation + 1 =>
            \A pos \in Cells :
                LET n == Cardinality(
                        {q \in Cells : /\ q # pos
                                       /\ q[1] - pos[1] \in {-1, 0, 1}
                                       /\ q[2] - pos[2] \in {-1, 0, 1}
                                       /\ world[q] = "Alive"})
                IN  (world'[pos] = "Alive") <=>
                        \/ world[pos] = "Dead" /\ n = 3
                        \/ world[pos] = "Alive" /\ n \in {2, 3}]_vars

\* C12 witness: the Blinker has gone through two steps.
C12_Witness ==
    /\ origin = Blinker
    /\ generation = 2
    /\ world = Blinker
    /\ step(world) = BlinkerTurned

\* C13: the cell encoding round-trips: state_from_id(id_from_state(c)) = c for
\* every state c; so the buffer decodes to the grid it encodes, and the cells
\* decoded from it are the cells of the grid.
C13_EncodingRoundTrips ==
    /\ \A c \in States : state_from_id(id_from_state(c)) = c
    /\ buffer.tag = "Some" =>
           \A pos \in Cells : state_from_id(buffer.val[pos]) = world[pos]
    /\ readback.tag = "Some" => readback.val = world

\* C13 witness: a grid with dead and alive cells has been encoded and decoded.
C13_Witness ==
    /\ buffer.tag = "Some"
    /\ readback.tag = "Some"
    /\ \E p, q \in Cells : world[p] = "Dead" /\ world[q] = "Alive"
    /\ \E p, q \in Cells : buffer.val[p] = 0 /\ buffer.val[q] = 1
    /\ readback.val = world

(* ------------------------------------------------------------------ *)
(* Claims on the structure of the history (HistSpec, DiffSpec)          *)
(* ------------------------------------------------------------------ *)

\* C14: in every state reached by new and pushes, checkpoints[0] is the initial
\* grid and, if f_check > 0, checkpoints[i] is the grid of generation
\* i * f_check, for every index i of checkpoints.
C14_CheckpointsAreGenerations ==
    /\ checkpoints[1] = gens[1]
    /\ f_check > 0 =>
           \A i \in 0..(Len(checkpoints) - 1) :
               /\ i * f_check <= Len(diffs)
               /\ checkpoints[i + 1] = gens[i * f_check + 1]

\* C14 witness: f_check = 2 and five pushes: the checkpoints are generations 0, 2
\* and 4, three different grids that differ from the grids pushed just before.
C14_Witness ==
    /\ f_check = 2
    /\ Len(diffs) = 5
    /\ Len(checkpoints) = 3
    /\ checkpoints[2] = gens[3]
    /\ checkpoints[3] = gens[5]
    /\ gens[3] # gens[2]
    /\ gens[5] # gens[4]
    /\ gens[5] # gens[3]
    /\ gens[3] # gens[1]

\* C15: in every reachable history state diffs.len() is the number of pushes
\* applied so far and `last` is the grid pushed last (the initial grid when no
\* push has been applied); each push increases diffs.len() by exactly one.
C15_LenCountsPushes ==
    /\ [](Len(diffs) = Len(gens) - 1)
    /\ [](last = gens[Len(gens)])
    /\ [](Len(diffs) = 0 => last = checkpoints[1])
    /\ [][Len(gens') = Len(gens) + 1 /\ Len(diffs') = Len(diffs) + 1]_vars

\* C15 witness: three pushes, the last of a grid that differs from the one
\* before it and from the initial one.
C15_Witness ==
    /\ Len(diffs) = 3
    /\ Len(gens) = 4
    /\ last = gens[4]
    /\ last # gens[3]
    /\ last # gens[1]

(* ------------------------------------------------------------------ *)
(* Claims on the frame of the service (Spec)                            *)
(* ------------------------------------------------------------------ *)

RECURSIVE Replay(_)
\* The history that new and the pushes of the grids gs[2], gs[3], ... make of
\* the initial grid gs[1], with the checkpoint frequency of the history.
Replay(gs) ==
    IF Len(gs) = 1 THEN new(gs[1], f_check)
    ELSE push(Replay(SubSeq(gs, 1, Len(gs) - 1)), gs[Len(gs)])

\* The Option a query answers with on the history h.
AnswerOn(h, m) ==
    IF m.type = "GetGen" THEN GetGenResponse(m.id, get_gen(h, m.gen))
    ELSE GetDiffResponse(m.id, get_diff(h, m.ref_gen, m.target_gen))

\* C16: Push is the only state-mutating message: the main loop handling a GetGen
\* or GetDiff request leaves diffs, checkpoints, last and f_check unchanged, a
\* step that changes one of them handles a Push, and so the history is the one
\* the pushes applied make and the answer sent to a query (Some or None, the
\* grid, the diff) is the answer on that history, whatever queries came before.
C16_OnlyPushMutates ==
    /\ [][(pc = "main" /\ Dequeues /\ Head(queue).type \in {"GetGen", "GetDiff"})
            => UNCHANGED hvars]_vars
    /\ [][hvars' # hvars => (Dequeues /\ Head(queue).type = "Push")]_vars
    /\ [](self = Replay(gens))
    /\ [][replies' # replies
            => LET r == replies'[Len(replies')]
                   a == AnswerOn(Replay(gens'), reqs[r.id])
               IN  /\ replies' = Append(replies, r)
                   /\ r.tag = a.tag
                   /\ r.grid = a.grid
                   /\ r.diff = a.diff]_vars

\* C16 witness: two pushes were applied and two queries answered by the main
\* loop, the second GetGen(2), after the first query, with the grid of
\* generation 2, the history being that of the two pushes.
C16_Witness ==
    /\ pc = "main"
    /\ waited = {}
    /\ Len(diffs) = 2
    /\ Len(replies) = 2
    /\ replies[1].id = 1
    /\ replies[2].id = 2
    /\ reqs[2].type = "GetGen"
    /\ reqs[2].gen = 2
    /\ replies[2].tag = "Some"
    /\ replies[2].grid = gens[3]
    /\ gens[3] # gens[2]
    /\ gens[2] # gens[1]

(* ------------------------------------------------------------------ *)
(* Claims on the growth of the history (DiffSpec, HistSpec)             *)
(* ------------------------------------------------------------------ *)

\* C17: the history grows append-only: a push appends exactly one diff and at
\* most one checkpoint, leaves the diffs and checkpoints it found and f_check
\* as they were, and hence get_gen(g) and get_diff(a, b) of the generations
\* that were available return after the push what they returned before it.
C17_AppendOnly ==
    [][/\ Len(diffs') = Len(diffs) + 1
       /\ SubSeq(diffs', 1, Len(diffs)) = diffs
       /\ Len(checkpoints') \in {Len(checkpoints), Len(checkpoints) + 1}
       /\ SubSeq(checkpoints', 1, Len(checkpoints)) = checkpoints
       /\ f_check' = f_check
       /\ \A g \in 0..Len(diffs) : get_gen(self', g) = get_gen(self, g)
       /\ \A a \in 0..Len(diffs) : \A b \in a..Len(diffs) :
              get_diff(self', a, b) = get_diff(self, a, b)]_vars

\* C17 witness: four pushes with f_check = 2: three checkpoints, and the grid
\* of generation 1 and the diff of generations 0..2, which differ from the last
\* grid and the whole diff, are still returned.
C17_Witness ==
    /\ f_check = 2
    /\ Len(diffs) = 4
    /\ Len(checkpoints) = 3
    /\ get_gen(self, 1).val = gens[2]
    /\ gens[2] # gens[5]
    /\ get_diff(self, 0, 2).val = diff(gens[1], gens[3])
    /\ get_diff(self, 0, 2).val # get_diff(self, 0, 4).val
    /\ diffs[1] # diffs[4]

\* C18: with f_check = k > 0, get_gen(g) of an available g reconstructs from
\* the checkpoint of index g div k with exactly the g mod k diffs
\* diffs[g - (g mod k) .. g], at most k - 1 of them; with f_check = 0 it replays
\* the g diffs diffs[0 .. g] from checkpoints[0]; and what it returns is that
\* checkpoint with the stack of those diffs applied, the grid of generation g.
C18_ReconstructsFromCheckpoint ==
    [](\A g \in 0..Len(diffs) :
           LET rd == get_gen_reads(self, g)
               ds == Slice(diffs, rd.from, rd.to)
           IN  /\ f_check > 0 =>
                      /\ rd.checkpoint = g \div f_check
                      /\ rd.from = g - (g % f_check)
                      /\ rd.to = g
                      /\ Len(ds) = g % f_check
                      /\ Len(ds) <= f_check - 1
                      /\ checkpoints[rd.checkpoint + 1] = gens[rd.from + 1]
               /\ f_check = 0 =>
                      /\ rd.checkpoint = 0
                      /\ rd.from = 0
                      /\ rd.to = g
                      /\ Len(ds) = g
               /\ get_gen(self, g) =
                      Some(apply_diff(checkpoints[rd.checkpoint + 1], stack_mul(ds)))
               /\ get_gen(self, g).val = gens[g + 1])

\* C18 witness: f_check = 5 and six pushes: generation 6 is rebuilt from the
\* checkpoint of index 1 and one diff, generation 4 from checkpoints[0] and
\* four diffs, and the grids involved differ.
C18_Witness ==
    /\ f_check = 5
    /\ Len(diffs) = 6
    /\ get_gen_reads(self, 6) = [checkpoint |-> 1, from |-> 5, to |-> 6]
    /\ get_gen_reads(self, 4) = [checkpoint |-> 0, from |-> 0, to |-> 4]
    /\ checkpoints[2] = gens[6]
    /\ checkpoints[2] # checkpoints[1]
    /\ gens[7] # gens[6]
    /\ gens[5] # gens[1]
    /\ get_gen(self, 6).val = gens[7]

\* C19: in every reachable history state checkpoints.len() is
\* 1 + diffs.len() div f_check when f_check > 0 and 1 when f_check = 0; so for
\* every g <= diffs.len() the checkpoint index and the bounds of the slice of
\* diffs that get_gen uses are in range, and get_gen does not fail with an
\* access out of bounds.
C19_CheckpointIndexInRange ==
    [](/\ f_check > 0 => Len(checkpoints) = 1 + (Len(diffs) \div f_check)
       /\ f_check = 0 => Len(checkpoints) = 1
       /\ \A g \in 0..Len(diffs) :
              LET rd == get_gen_reads(self, g)
              IN  /\ rd.checkpoint + 1 \in 1..Len(checkpoints)
                  /\ 0 <= rd.from
                  /\ rd.from <= rd.to
                  /\ rd.to <= Len(diffs)
                  /\ get_gen(self, g).tag = "Some")

\* C19 witness: f_check = 2 and six pushes: four checkpoints, and get_gen(6)
\* reads the last of them.
C19_Witness ==
    /\ f_check = 2
    /\ Len(diffs) = 6
    /\ Len(checkpoints) = 4
    /\ get_gen_reads(self, 6).checkpoint = 3
    /\ get_gen(self, 6).tag = "Some"
    /\ checkpoints[4] = last
    /\ last # checkpoints[1]

(* ------------------------------------------------------------------ *)
(* Claims on the replies of the service (Spec)                          *)
(* ------------------------------------------------------------------ *)

\* The number of replies sent to mail id.
NbReplies(id) == Cardinality({i \in 1..Len(replies) : replies[i].id = id})

\* The mail at the head of the channel is a non-blocking query with a reply
\* handle and a valid range.
HeadIsNonBlockingQuery ==
    /\ queue # <<>>
    /\ Head(queue).handle
    /\ Head(queue).type \in {"GetGen", "GetDiff"}
    /\ ~Head(queue).blocking
    /\ Head(queue).type = "GetDiff" => Head(queue).ref_gen <= Head(queue).target_gen

\* C20: every non-blocking GetGen/GetDiff request with a valid range that the
\* main loop dequeues receives exactly one reply, sent in the step that handles
\* it (before the next message is dequeued); every query, blocking ones
\* included, receives at most one reply; a Push never receives a reply, nor
\* does a mail sent without a reply handle.
C20_ExactlyOneReply ==
    /\ [][(pc = "main" /\ Dequeues /\ HeadIsNonBlockingQuery)
            => /\ Len(replies') = Len(replies) + 1
               /\ SubSeq(replies', 1, Len(replies)) = replies
               /\ replies'[Len(replies')].id = Head(queue).id
               /\ NbReplies(Head(queue).id) = 0
               /\ pc' = "main"]_vars
    /\ [](\A id \in 1..Len(reqs) : NbReplies(id) <= 1)
    /\ [](\A i \in 1..Len(replies) :
             /\ replies[i].id \in 1..Len(reqs)
             /\ reqs[replies[i].id].type # "Push"
             /\ reqs[replies[i].id].handle)
    /\ [][Len(replies') \in {Len(replies), Len(replies) + 1}]_vars

\* C20 witness: a non-blocking query was answered by the main loop before any
\* push (not yet), a blocking query then entered the nested wait and was
\* answered once by a Push, and a second Push was applied with no reply.
C20_Witness ==
    /\ Len(reqs) = 2
    /\ Len(replies) = 2
    /\ ~reqs[1].blocking
    /\ replies[1].id = 1
    /\ replies[1].tag = "None"
    /\ reqs[2].blocking
    /\ waited = {2}
    /\ replies[2].id = 2
    /\ replies[2].tag = "Some"
    /\ Len(diffs) = 2
    /\ pc = "main"
    /\ queue = <<>>

====
